---- MODULE Spec2Model ----
(***************************************************************************)
(* Model of FlashcardState (reflex_flash_cards.py): the deck, the derived  *)
(* projections (filtered_flashcards, visible_flashcards, current_card),    *)
(* the selection cursor and the event handlers that mutate them.           *)
(*                                                                         *)
(* Strings are sequences of code points, so that strip(), lower(), the     *)
(* substring test and the ordering used by sorted() are computed as Python *)
(* computes them.  Positions are 0-based as in the source; a Python list   *)
(* xs is a TLA+ sequence, xs[i] is written PyIndex(xs, i) and a list       *)
(* comprehension [x for x in xs if p(x)] is SelectSeq(xs, p).              *)
(***************************************************************************)
EXTENDS Integers, Sequences, FiniteSets, TLC

VARIABLES
    flashcards,      \* List[Dict]: the deck
    current_index,   \* int
    show_answer,     \* bool
    new_english,     \* str
    new_vietnamese,  \* str
    filter_learned,  \* bool
    search_query,    \* str
    sort_alpha,      \* bool
    view_mode,       \* "single" | "grid"
    flipped_cards,   \* List[int]
    flipped_words,   \* List[str]
    temp_word,       \* str
    file,            \* the content of DATA_FILE on disk
    disk_ok,         \* environment: whether DATA_FILE can currently be written
    op,              \* history: the handler that ran last
    pre,             \* history: the program state when that handler started
    arg,             \* history: the argument that handler was called with
    save_calls,      \* history: calls of save_flashcards made by that handler
    raised           \* history: whether that handler ended with an exception

prog_vars == <<flashcards, current_index, show_answer, new_english, new_vietnamese,
               filter_learned, search_query, sort_alpha, view_mode, flipped_cards,
               flipped_words, temp_word, file>>

vars == <<flashcards, current_index, show_answer, new_english, new_vietnamese,
          filter_learned, search_query, sort_alpha, view_mode, flipped_cards,
          flipped_words, temp_word, file, disk_ok, op, pre, arg, save_calls,
          raised>>

----------------------------------------------------------------------------
(* Bounds of the model *)

MaxDeck == 2          \* longest deck explored (in the file or built by add)

----------------------------------------------------------------------------
(* Python string primitives *)

\* str.isspace() on one code point (ASCII whitespace)
isspace(c) == c \in {9, 10, 11, 12, 13, 32}

\* str.lower() on one code point (ASCII letters)
lower_char(c) == IF c \in 65..90 THEN c + 32 ELSE c

\* str.lower()
lower(s) == [i \in 1..Len(s) |-> lower_char(s[i])]

RECURSIVE lstrip(_)
lstrip(s) == IF s # <<>> /\ isspace(Head(s)) THEN lstrip(Tail(s)) ELSE s

RECURSIVE rstrip(_)
rstrip(s) ==
    IF s # <<>> /\ isspace(s[Len(s)]) THEN rstrip(SubSeq(s, 1, Len(s) - 1)) ELSE s

\* only the leading whitespace removed
strip_left_only(s) == lstrip(s)

\* str.strip()
strip(s) == rstrip(lstrip(s))

\* q in s  (substring test)
contains(s, q) ==
    \E i \in 1..(Len(s) - Len(q) + 1) : SubSeq(s, i, i + Len(q) - 1) = q

\* a < b on str: lexicographic by code point
RECURSIVE str_less(_, _)
str_less(a, b) ==
    IF b = <<>> THEN FALSE
    ELSE IF a = <<>> THEN TRUE
    ELSE IF Head(a) # Head(b) THEN Head(a) < Head(b)
    ELSE str_less(Tail(a), Tail(b))

\* a % n as Python computes it for n > 0: the result has the sign of n
py_mod(a, n) == a - n * (a \div n)

----------------------------------------------------------------------------
(* Python list primitives *)

\* xs[i]: a negative i counts from the end, anything else out of range raises
PyIndex(xs, i) ==
    IF 0 <= i /\ i < Len(xs) THEN [kind |-> "card", card |-> xs[i + 1]]
    ELSE IF -Len(xs) <= i /\ i < 0 THEN [kind |-> "card", card |-> xs[Len(xs) + i + 1]]
    ELSE [kind |-> "IndexError"]

\* the english text compared as it is, upper case before lower case
sort_key_raw(c) == c.english

\* the key of sorted() at line 69
sort_key(c) == lower(c.english)

\* one step of a stable sort: c goes after every element whose key is <= its own
RECURSIVE insert_by_key(_, _)
insert_by_key(c, xs) ==
    IF xs = <<>> THEN <<c>>
    ELSE IF str_less(sort_key(c), sort_key(Head(xs))) THEN <<c>> \o xs
    ELSE <<Head(xs)>> \o insert_by_key(c, Tail(xs))

\* sorted(cards, key=...): ascending and stable
RECURSIVE sorted(_)
sorted(xs) ==
    IF xs = <<>> THEN <<>>
    ELSE insert_by_key(xs[Len(xs)], sorted(SubSeq(xs, 1, Len(xs) - 1)))

----------------------------------------------------------------------------
(* The program state as one record, and the computed vars over it *)

cur == [flashcards     |-> flashcards,
        current_index  |-> current_index,
        show_answer    |-> show_answer,
        new_english    |-> new_english,
        new_vietnamese |-> new_vietnamese,
        filter_learned |-> filter_learned,
        search_query   |-> search_query,
        sort_alpha     |-> sort_alpha,
        view_mode      |-> view_mode,
        flipped_cards  |-> flipped_cards,
        flipped_words  |-> flipped_words,
        temp_word      |-> temp_word,
        file           |-> file]

\* the filter with its test inverted: the learned cards are the ones kept
filtered_keeps_learned(S) ==
    IF S.filter_learned
    THEN LET is_learned(c) == c.learned IN SelectSeq(S.flashcards, is_learned)
    ELSE S.flashcards

filtered_flashcards(S) ==
    IF S.filter_learned
    THEN LET not_learned(c) == ~c.learned IN SelectSeq(S.flashcards, not_learned)
    ELSE S.flashcards

\* the search matching the english text only
visible_english_only(S) ==
    LET query == lower(strip(S.search_query))
        matches(c) == contains(lower(c.english), query)
        searched == IF query # <<>>
                    THEN SelectSeq(filtered_flashcards(S), matches)
                    ELSE filtered_flashcards(S)
    IN  IF S.sort_alpha THEN sorted(searched) ELSE searched

visible_flashcards(S) ==
    LET query == lower(strip(S.search_query))
        matches(c) == contains(lower(c.english), query)
                      \/ contains(lower(c.vietnamese), query)
        searched == IF query # <<>>
                    THEN SelectSeq(filtered_flashcards(S), matches)
                    ELSE filtered_flashcards(S)
    IN  IF S.sort_alpha THEN sorted(searched) ELSE searched

\* current_card without the fallback of lines 78-79
current_card_unguarded(S) ==
    LET filtered == visible_flashcards(S)
    IN  IF filtered = <<>> THEN [kind |-> "None"]
        ELSE PyIndex(filtered, S.current_index)

current_card(S) ==
    LET filtered == visible_flashcards(S)
    IN  IF filtered = <<>> THEN [kind |-> "None"]
        ELSE IF S.current_index >= Len(filtered) THEN PyIndex(filtered, 0)
        ELSE PyIndex(filtered, S.current_index)

card_count(S) == Len(visible_flashcards(S))

\* the f-string is kept as its template and the two numbers it formats
card_counter_text(S) ==
    LET count == Len(visible_flashcards(S))
    IN  IF count = 0 THEN [text |-> "No cards"]
        ELSE [text |-> "Card k of n", k |-> S.current_index + 1, n |-> count]

----------------------------------------------------------------------------
(* Persistence *)

\* every flag written as false
json_bool_always_false(b) == "false"

\* json.dump of a bool
json_bool(b) == IF b THEN "true" ELSE "false"

\* line 46: the JSON array of the cards, texts written as they are
\* (ensure_ascii=False), flags as the JSON literals
json_dump(deck) ==
    [i \in 1..Len(deck) |->
        [english    |-> deck[i].english,
         vietnamese |-> deck[i].vietnamese,
         learned    |-> json_bool(deck[i].learned)]]

\* line 35: the list of dicts json.load builds from such an array
json_load(text) ==
    [i \in 1..Len(text) |->
        [english    |-> text[i].english,
         vietnamese |-> text[i].vietnamese,
         learned    |-> text[i].learned = "true"]]

\* DATA_FILE: absent; present but open() fails; present with text that is not
\* JSON; present with the JSON array of a deck
MissingFile == [state |-> "missing", cards |-> <<>>]
UnreadableFile == [state |-> "unreadable", cards |-> <<>>]
CorruptFile == [state |-> "corrupt", cards |-> <<>>]
FileOf(deck) == [state |-> "ok", cards |-> json_dump(deck)]

\* what one call of save_flashcards can do: the write succeeds; open() raises and
\* the file is left as it was; or the dump raises after open() truncated the file
SaveOutcomes == IF disk_ok THEN {"ok"} ELSE {"open_failed", "dump_failed"}

save_flashcards(deck, outcome) ==
    IF outcome = "ok" THEN FileOf(deck)
    ELSE IF outcome = "open_failed" THEN file
    ELSE CorruptFile

\* a save whose exception reaches the calling handler
save_raises_uncaught(outcome) == outcome # "ok"

\* lines 44-48: whether save_flashcards ends with an exception; open() and
\* json.dump raise inside the try, and except Exception catches what they raise
save_raises(outcome) == FALSE

\* lines 124-128, 135-141: the statements after self.save_flashcards() run
\* unless the call raised
after_save(outcome, then, otherwise) ==
    IF save_raises(outcome) THEN otherwise ELSE then

\* line 34-35: open() raises on a file that cannot be read, json.load on text
\* that is not JSON
read_fails(f) == f.state \in {"unreadable", "corrupt"}

\* a load whose exception reaches the caller
load_raises_uncaught(f) == read_fails(f)

\* lines 33-38: whether load_flashcards ends with an exception; the read is
\* inside the try, and except Exception catches what it raises
load_raises(f) == FALSE

\* the deck load_flashcards assigns
loaded_deck(f) ==
    IF f.state = "missing" THEN <<>>
    ELSE IF read_fails(f) THEN <<>>
    ELSE json_load(f.cards)

----------------------------------------------------------------------------
(* The values the environment supplies: what the user types, what the file holds *)

\* typed into the "English word" input: "", " a"
EnglishInputs == {<<>>, <<32, 97>>}

\* typed into the "Vietnamese description" input: " ", "b "
VietnameseInputs == {<<32>>, <<98, 32>>}

\* typed into the search input: "", " A"
Queries == {<<>>, <<32, 65>>}

\* the english words an event can name: "a", "B" and "b", which no card carries
Words == {<<97>>, <<66>>, <<98>>}

\* the positions an event can name, some of them out of range
Positions == -1..MaxDeck

\* the cards a data file holds
\* the card positions a flip is asked for
FlipPositions == {0, 1}

\* the english words a flip is asked for: "a", "B"
FlipWords == {<<97>>, <<66>>}

\* the words parked in temp_word: "", "a", "B"
TempWords == {<<>>} \cup FlipWords

FileCards == [english : {<<97>>, <<66>>}, vietnamese : {<<98>>}, learned : BOOLEAN]

SeqsUpTo(S, n) == UNION {[1..k -> S] : k \in 0..n}

FileContents ==
    {MissingFile, UnreadableFile, CorruptFile} \cup {FileOf(d) : d \in SeqsUpTo(FileCards, MaxDeck)}

----------------------------------------------------------------------------
(* Steps shared by the handlers *)

py_max(a, b) == IF a >= b THEN a ELSE b

\* the cursor left where it was
clamp_index_never(i, n) == i

\* lines 127-128 and 138-139: pull the cursor back onto a projection of length n
clamp_index(i, n) == IF i >= n THEN py_max(0, n - 1) ELSE i

\* the last card dropped, whichever card is the current one
without_last_card(deck, current) == SubSeq(deck, 1, Len(deck) - 1)

\* line 134: [card for card in self.flashcards if card != current]
without_card(deck, current) ==
    LET differs(card) == card # current IN SelectSeq(deck, differs)

\* the loop without its break: every deck entry equal to target is negated
toggle_every_equal(deck, target) ==
    [j \in 1..Len(deck) |->
        IF deck[j] = target THEN [deck[j] EXCEPT !.learned = ~deck[j].learned]
        ELSE deck[j]]

\* lines 149-152: negate learned on the first deck entry equal to target
toggle_first_equal(deck, target) ==
    IF \E j \in 1..Len(deck) : deck[j] = target
    THEN LET j == CHOOSE k \in 1..Len(deck) :
                      deck[k] = target /\ \A m \in 1..(k - 1) : deck[m] # target
         IN  [deck EXCEPT ![j].learned = ~deck[j].learned]
    ELSE deck

\* the cursor advanced without wrapping
next_index_nowrap(i, n) == i + 1

\* line 99: the cursor after next_card
next_index(i, n) == py_mod(i + 1, n)

\* a remainder that truncates toward zero, as the % of C does: -1 from position 0
previous_index_truncating(i, n) == IF i - 1 < 0 THEN -((1 - i) % n) ELSE (i - 1) % n

\* line 106: the cursor after previous_card
previous_index(i, n) == py_mod(i - 1, n)

\* the inputs tested as typed, not trimmed
\* the identifier appended whether or not the list already holds it
flip_toggle_always_adds(xs, x) == Append(xs, x)

\* lines 185-188 and 192-195: the list without x if it holds x, else with x
\* appended
flip_toggle(xs, x) ==
    IF \E i \in 1..Len(xs) : xs[i] = x
    THEN LET other(y) == y # x IN SelectSeq(xs, other)
    ELSE Append(xs, x)

\* a mode switch that always ends in the grid
toggled_mode_to_grid(mode) == "grid"

\* line 228
toggled_mode(mode) == IF mode = "single" THEN "grid" ELSE "single"

valid_input_untrimmed(S) == S.new_english # <<>> /\ S.new_vietnamese # <<>>

\* line 115: both inputs are non-empty once trimmed
valid_input(S) == strip(S.new_english) # <<>> /\ strip(S.new_vietnamese) # <<>>

\* the card built from the inputs as typed
new_card_untrimmed(english, vietnamese) ==
    [english |-> english, vietnamese |-> vietnamese, learned |-> FALSE]

\* lines 116-120: the card add_flashcard builds
new_card(english, vietnamese) ==
    [english |-> strip(english), vietnamese |-> strip(vietnamese), learned |-> FALSE]

\* The history variables record one run of one handler.  Any step of a behaviour
\* can be the recorded one: a handler either runs unrecorded (op stays "-") or
\* leaves its name, the state it started from and the number of saves it made.
\* A record is final, no step follows it, so that the program states reached are
\* exactly those reached by unrecorded runs and each is explored once.
Blank == [flashcards     |-> <<>>,
          current_index  |-> 0,
          show_answer    |-> FALSE,
          new_english    |-> <<>>,
          new_vietnamese |-> <<>>,
          filter_learned |-> FALSE,
          search_query   |-> <<>>,
          sort_alpha     |-> FALSE,
          view_mode      |-> "single",
          flipped_cards  |-> <<>>,
          flipped_words  |-> <<>>,
          temp_word      |-> <<>>,
          file           |-> MissingFile]

\* the arguments a handler can be called with
NoArg == [kind |-> "none"]
IndexArg(i) == [kind |-> "index", index |-> i]
WordArg(w) == [kind |-> "word", word |-> w]

RanEnding(name, saves, a, exc) ==
    \/ op' = name /\ pre' = cur /\ arg' = a /\ save_calls' = saves /\ raised' = exc
    \/ op' = "-" /\ pre' = Blank /\ arg' = NoArg /\ save_calls' = 0 /\ raised' = FALSE

RanWith(name, saves, a) == RanEnding(name, saves, a, FALSE)

Ran(name, saves) == RanWith(name, saves, NoArg)

\* no handler run is on record
Idle == op = "-"

----------------------------------------------------------------------------
(* The state after construction (lines 13-24), for any content of DATA_FILE *)

Init ==
    /\ flashcards = <<>>
    /\ current_index = 0
    /\ show_answer = FALSE
    /\ new_english = <<>>
    /\ new_vietnamese = <<>>
    /\ filter_learned = FALSE
    /\ search_query = <<>>
    /\ sort_alpha = FALSE
    /\ view_mode = "single"
    /\ flipped_cards = <<>>
    /\ flipped_words = <<>>
    /\ temp_word = <<>>
    /\ file \in FileContents
    /\ disk_ok = TRUE
    /\ op = "-"
    /\ pre = Blank
    /\ arg = NoArg
    /\ save_calls = 0
    /\ raised = FALSE

----------------------------------------------------------------------------
(* The event handlers *)

load_flashcards ==
    /\ Idle
    /\ /\ RanEnding("load_flashcards", 0, NoArg, load_raises(file))
       /\ flashcards' = IF load_raises(file) THEN flashcards ELSE loaded_deck(file)
       /\ UNCHANGED <<current_index, show_answer, new_english, new_vietnamese,
                      filter_learned, search_query, sort_alpha, view_mode,
                      flipped_cards, flipped_words, temp_word, file, disk_ok>>

\* the setters the framework generates for the vars bound with on_change
set_new_english ==
    /\ Idle
    /\ \E value \in EnglishInputs :
           /\ Ran("set_new_english", 0)
           /\ new_english' = value
           /\ UNCHANGED <<flashcards, current_index, show_answer, new_vietnamese,
                          filter_learned, search_query, sort_alpha, view_mode,
                          flipped_cards, flipped_words, temp_word, file, disk_ok>>

set_new_vietnamese ==
    /\ Idle
    /\ \E value \in VietnameseInputs :
           /\ Ran("set_new_vietnamese", 0)
           /\ new_vietnamese' = value
           /\ UNCHANGED <<flashcards, current_index, show_answer, new_english,
                          filter_learned, search_query, sort_alpha, view_mode,
                          flipped_cards, flipped_words, temp_word, file, disk_ok>>

set_search_query ==
    /\ Idle
    /\ \E value \in Queries :
           /\ Ran("set_search_query", 0)
           /\ search_query' = value
           /\ UNCHANGED <<flashcards, current_index, show_answer, new_english,
                          new_vietnamese, filter_learned, sort_alpha, view_mode,
                          flipped_cards, flipped_words, temp_word, file, disk_ok>>

\* the sort switch reordering the deck itself
set_sort_alpha_in_place ==
    /\ Idle
    /\ \E value \in BOOLEAN :
           /\ Ran("set_sort_alpha", 0)
           /\ sort_alpha' = value
           /\ flashcards' = IF value THEN sorted(flashcards) ELSE flashcards
           /\ UNCHANGED <<current_index, show_answer, new_english,
                          new_vietnamese, filter_learned, search_query, view_mode,
                          flipped_cards, flipped_words, temp_word, file, disk_ok>>

set_sort_alpha ==
    /\ Idle
    /\ \E value \in BOOLEAN :
           /\ Ran("set_sort_alpha", 0)
           /\ sort_alpha' = value
           /\ UNCHANGED <<flashcards, current_index, show_answer, new_english,
                          new_vietnamese, filter_learned, search_query, view_mode,
                          flipped_cards, flipped_words, temp_word, file, disk_ok>>

next_card ==
    /\ Idle
    /\ LET filtered == visible_flashcards(cur)
       IN  /\ Ran("next_card", 0)
           /\ IF filtered # <<>>
              THEN /\ current_index' = next_index(current_index, Len(filtered))
                   /\ show_answer' = FALSE
              ELSE UNCHANGED <<current_index, show_answer>>
           /\ UNCHANGED <<flashcards, new_english, new_vietnamese, filter_learned,
                          search_query, sort_alpha, view_mode, flipped_cards,
                          flipped_words, temp_word, file, disk_ok>>

previous_card ==
    /\ Idle
    /\ LET filtered == visible_flashcards(cur)
       IN  /\ Ran("previous_card", 0)
           /\ IF filtered # <<>>
              THEN /\ current_index' = previous_index(current_index, Len(filtered))
                   /\ show_answer' = FALSE
              ELSE UNCHANGED <<current_index, show_answer>>
           /\ UNCHANGED <<flashcards, new_english, new_vietnamese, filter_learned,
                          search_query, sort_alpha, view_mode, flipped_cards,
                          flipped_words, temp_word, file, disk_ok>>

toggle_answer ==
    /\ Idle
    /\ /\ Ran("toggle_answer", 0)
       /\ show_answer' = ~show_answer
       /\ UNCHANGED <<flashcards, current_index, new_english, new_vietnamese,
                      filter_learned, search_query, sort_alpha, view_mode,
                      flipped_cards, flipped_words, temp_word, file, disk_ok>>

add_flashcard ==
    /\ Idle
    /\ IF valid_input(cur)
       THEN /\ Len(flashcards) < MaxDeck
            /\ \E outcome \in SaveOutcomes :
                 LET deck == Append(flashcards, new_card(new_english, new_vietnamese))
                     filtered == visible_flashcards([cur EXCEPT !.flashcards = deck])
                 IN  /\ RanEnding("add_flashcard", 1, NoArg, save_raises(outcome))
                     /\ flashcards' = deck
                     /\ new_english' = <<>>
                     /\ new_vietnamese' = <<>>
                     /\ file' = save_flashcards(deck, outcome)
                     /\ current_index' =
                            after_save(outcome,
                                       clamp_index(current_index, Len(filtered)),
                                       current_index)
            /\ UNCHANGED <<show_answer, filter_learned, search_query, sort_alpha,
                           view_mode, flipped_cards, flipped_words, temp_word, disk_ok>>
       ELSE /\ Ran("add_flashcard", 0)
            /\ UNCHANGED <<flashcards, current_index, show_answer, new_english,
                           new_vietnamese, filter_learned, search_query, sort_alpha,
                           view_mode, flipped_cards, flipped_words, temp_word, file,
                           disk_ok>>

remove_current_card ==
    /\ Idle
    /\ LET current == current_card(cur)
       IN  IF current.kind = "card"
           THEN /\ \E outcome \in SaveOutcomes :
                     LET deck == without_card(flashcards, current.card)
                         filtered == visible_flashcards([cur EXCEPT !.flashcards = deck])
                     IN  /\ RanEnding("remove_current_card", 1, NoArg,
                                       save_raises(outcome))
                         /\ flashcards' = deck
                         /\ file' = save_flashcards(deck, outcome)
                         /\ current_index' =
                                after_save(outcome,
                                           IF filtered # <<>>
                                           THEN clamp_index(current_index, Len(filtered))
                                           ELSE 0,
                                           current_index)
                /\ UNCHANGED <<show_answer, new_english, new_vietnamese, filter_learned,
                               search_query, sort_alpha, view_mode, flipped_cards,
                               flipped_words, temp_word, disk_ok>>
           ELSE /\ Ran("remove_current_card", 0)
                /\ UNCHANGED <<flashcards, current_index, show_answer, new_english,
                               new_vietnamese, filter_learned, search_query, sort_alpha,
                               view_mode, flipped_cards, flipped_words, temp_word, file,
                               disk_ok>>

toggle_learned ==
    /\ Idle
    /\ LET current == current_card(cur)
       IN  IF current.kind = "card"
           THEN /\ \E outcome \in SaveOutcomes :
                     LET deck == toggle_first_equal(flashcards, current.card)
                     IN  /\ RanEnding("toggle_learned", 1, NoArg, save_raises(outcome))
                         /\ flashcards' = deck
                         /\ file' = save_flashcards(deck, outcome)
                /\ UNCHANGED <<current_index, show_answer, new_english, new_vietnamese,
                               filter_learned, search_query, sort_alpha, view_mode,
                               flipped_cards, flipped_words, temp_word, disk_ok>>
           ELSE /\ Ran("toggle_learned", 0)
                /\ UNCHANGED <<flashcards, current_index, show_answer, new_english,
                               new_vietnamese, filter_learned, search_query, sort_alpha,
                               view_mode, flipped_cards, flipped_words, temp_word, file,
                               disk_ok>>

toggle_learned_by_index ==
    /\ Idle
    /\ \E card_index \in Positions :
           LET filtered == visible_flashcards(cur)
           IN  IF 0 <= card_index /\ card_index < Len(filtered)
               THEN /\ \E outcome \in SaveOutcomes :
                         LET deck == toggle_first_equal(flashcards, filtered[card_index + 1])
                         IN  /\ RanEnding("toggle_learned_by_index", 1,
                                           IndexArg(card_index), save_raises(outcome))
                             /\ flashcards' = deck
                             /\ file' = save_flashcards(deck, outcome)
                    /\ UNCHANGED <<current_index, show_answer, new_english,
                                   new_vietnamese, filter_learned, search_query,
                                   sort_alpha, view_mode, flipped_cards, flipped_words,
                                   temp_word, disk_ok>>
               ELSE /\ RanWith("toggle_learned_by_index", 0, IndexArg(card_index))
                    /\ UNCHANGED <<flashcards, current_index, show_answer, new_english,
                                   new_vietnamese, filter_learned, search_query,
                                   sort_alpha, view_mode, flipped_cards, flipped_words,
                                   temp_word, file, disk_ok>>

\* lines 170-179, run by toggle_learned_by_word and set_temp_word_and_mark_learned
learned_by_word(english_word, name) ==
    LET filtered == visible_flashcards(cur)
        hits == {i \in 1..Len(filtered) : filtered[i].english = english_word}
    IN  IF hits # {}
        THEN /\ \E outcome \in SaveOutcomes :
                  LET first == CHOOSE i \in hits : \A k \in hits : i <= k
                      deck == toggle_first_equal(flashcards, filtered[first])
                  IN  /\ RanEnding(name, 1, WordArg(english_word), save_raises(outcome))
                      /\ flashcards' = deck
                      /\ file' = save_flashcards(deck, outcome)
        ELSE /\ RanWith(name, 0, WordArg(english_word))
             /\ UNCHANGED <<flashcards, file>>

toggle_learned_by_word ==
    /\ Idle
    /\ \E english_word \in Words :
           /\ learned_by_word(english_word, "toggle_learned_by_word")
           /\ UNCHANGED <<current_index, show_answer, new_english, new_vietnamese,
                          filter_learned, search_query, sort_alpha, view_mode,
                          flipped_cards, flipped_words, temp_word, disk_ok>>

toggle_view_mode ==
    /\ Idle
    /\ /\ Ran("toggle_view_mode", 0)
       /\ view_mode' = toggled_mode(view_mode)
       /\ show_answer' = FALSE
       /\ flipped_cards' = <<>>
       /\ UNCHANGED <<flashcards, current_index, new_english, new_vietnamese,
                      filter_learned, search_query, sort_alpha, flipped_words,
                      temp_word, file, disk_ok>>

\* the filter toggled with the cursor left where it was
toggle_filter_keeps_cursor ==
    /\ Idle
    /\ Ran("toggle_filter", 0)
    /\ filter_learned' = ~filter_learned
    /\ show_answer' = FALSE
    /\ UNCHANGED <<flashcards, current_index, new_english, new_vietnamese,
                   search_query, sort_alpha, view_mode, flipped_cards,
                   flipped_words, temp_word, file, disk_ok>>

toggle_filter ==
    /\ Idle
    /\ /\ Ran("toggle_filter", 0)
       /\ filter_learned' = ~filter_learned
       /\ current_index' = 0
       /\ show_answer' = FALSE
       /\ UNCHANGED <<flashcards, new_english, new_vietnamese, search_query,
                      sort_alpha, view_mode, flipped_cards, flipped_words, temp_word,
                      file, disk_ok>>

----------------------------------------------------------------------------
(* Every handler of the deck and of the cursor, with a disk that takes writes *)

set_temp_word ==
    /\ Idle
    /\ \E word \in TempWords :
           /\ RanWith("set_temp_word", 0, WordArg(word))
           /\ temp_word' = word
           /\ UNCHANGED <<flashcards, current_index, show_answer, new_english,
                          new_vietnamese, filter_learned, search_query, sort_alpha,
                          view_mode, flipped_cards, flipped_words, file, disk_ok>>

\* card_index is None when the handler is called without an argument
toggle_flip ==
    /\ Idle
    /\ \/ /\ RanWith("toggle_flip", 0, NoArg)
          /\ UNCHANGED flipped_cards
       \/ \E card_index \in FlipPositions :
             /\ RanWith("toggle_flip", 0, IndexArg(card_index))
             /\ flipped_cards' = flip_toggle(flipped_cards, card_index)
    /\ UNCHANGED <<flashcards, current_index, show_answer, new_english,
                   new_vietnamese, filter_learned, search_query, sort_alpha,
                   view_mode, flipped_words, temp_word, file, disk_ok>>

toggle_flip_by_word ==
    /\ Idle
    /\ \E english_word \in FlipWords :
           /\ RanWith("toggle_flip_by_word", 0, WordArg(english_word))
           /\ flipped_words' = flip_toggle(flipped_words, english_word)
           /\ UNCHANGED <<flashcards, current_index, show_answer, new_english,
                          new_vietnamese, filter_learned, search_query, sort_alpha,
                          view_mode, flipped_cards, temp_word, file, disk_ok>>

set_temp_word_and_flip ==
    /\ Idle
    /\ RanWith("set_temp_word_and_flip", 0, WordArg(temp_word))
    /\ IF temp_word # <<>>
       THEN /\ flipped_words' = flip_toggle(flipped_words, temp_word)
            /\ temp_word' = <<>>
       ELSE UNCHANGED <<flipped_words, temp_word>>
    /\ UNCHANGED <<flashcards, current_index, show_answer, new_english,
                   new_vietnamese, filter_learned, search_query, sort_alpha,
                   view_mode, flipped_cards, file, disk_ok>>

set_temp_word_and_mark_learned ==
    /\ Idle
    /\ IF temp_word # <<>>
       THEN /\ learned_by_word(temp_word, "set_temp_word_and_mark_learned")
            /\ temp_word' = <<>>
       ELSE /\ RanWith("set_temp_word_and_mark_learned", 0, WordArg(temp_word))
            /\ UNCHANGED <<flashcards, file, temp_word>>
    /\ UNCHANGED <<current_index, show_answer, new_english, new_vietnamese,
                   filter_learned, search_query, sort_alpha, view_mode,
                   flipped_cards, flipped_words, disk_ok>>

flip_from_data ==
    /\ Idle
    /\ Ran("flip_from_data", 0)
    /\ UNCHANGED <<prog_vars, disk_ok>>

mark_learned_from_data ==
    /\ Idle
    /\ Ran("mark_learned_from_data", 0)
    /\ UNCHANGED <<prog_vars, disk_ok>>

Next ==
    \/ load_flashcards
    \/ set_new_english
    \/ set_new_vietnamese
    \/ set_search_query
    \/ set_sort_alpha
    \/ next_card
    \/ previous_card
    \/ toggle_answer
    \/ add_flashcard
    \/ remove_current_card
    \/ toggle_learned
    \/ toggle_learned_by_index
    \/ toggle_learned_by_word
    \/ toggle_view_mode
    \/ toggle_filter

Spec == Init /\ [][Next]_vars

----------------------------------------------------------------------------
(* A session that starts on a loaded deck and only adds, removes, toggles   *)
(* the learned filter and navigates                                         *)

InitLoaded ==
    /\ file \in FileContents
    /\ flashcards = loaded_deck(file)
    /\ current_index = 0
    /\ show_answer = FALSE
    /\ new_english = <<>>
    /\ new_vietnamese = <<>>
    /\ filter_learned = FALSE
    /\ search_query = <<>>
    /\ sort_alpha \in BOOLEAN
    /\ view_mode = "single"
    /\ flipped_cards = <<>>
    /\ flipped_words = <<>>
    /\ temp_word = <<>>
    /\ disk_ok = TRUE
    /\ op = "-"
    /\ pre = Blank
    /\ arg = NoArg
    /\ save_calls = 0
    /\ raised = FALSE

NextCursor ==
    \/ set_new_english
    \/ set_new_vietnamese
    \/ add_flashcard
    \/ remove_current_card
    \/ toggle_filter
    \/ next_card
    \/ previous_card

SpecCursor == InitLoaded /\ [][NextCursor]_vars

----------------------------------------------------------------------------
(* The projection over decks and queries of every kind: a loaded deck with  *)
(* a query typed in, and the switches the projection reads                   *)

\* cards whose english texts tie when lower-cased ("a", "A") or sort differently
\* by case ("B"), with vietnamese texts "b" and "C"
ProjectCards ==
    [english : {<<97>>, <<65>>, <<66>>}, vietnamese : {<<98>>, <<67>>}, learned : BOOLEAN]

\* "", " ", " A", "b", "c "
ProjectQueries == {<<>>, <<32>>, <<32, 65>>, <<98>>, <<99, 32>>}

InitProject ==
    /\ file \in {FileOf(d) : d \in SeqsUpTo(ProjectCards, MaxDeck)}
    /\ flashcards = loaded_deck(file)
    /\ current_index = 0
    /\ show_answer = FALSE
    /\ new_english = <<>>
    /\ new_vietnamese = <<>>
    /\ filter_learned = FALSE
    /\ search_query \in ProjectQueries
    /\ sort_alpha = FALSE
    /\ view_mode = "single"
    /\ flipped_cards = <<>>
    /\ flipped_words = <<>>
    /\ temp_word = <<>>
    /\ disk_ok = TRUE
    /\ op = "-"
    /\ pre = Blank
    /\ arg = NoArg
    /\ save_calls = 0
    /\ raised = FALSE

NextProject ==
    \/ toggle_filter
    \/ set_sort_alpha
    \/ set_search_query

SpecProject == InitProject /\ [][NextProject]_vars

----------------------------------------------------------------------------
(* The grid view: every handler of the state, over a loaded deck with the   *)
(* sort switch either way.  The handlers of the view state (mode, flipped   *)
(* cards, flipped words, temp_word) run any number of times; each of the    *)
(* others is followed as the last recorded step of a behaviour, from every  *)
(* state the view handlers reach.                                           *)

Recorded == op' # "-"

NextGrid ==
    \/ toggle_view_mode
    \/ toggle_flip
    \/ toggle_flip_by_word
    \/ set_temp_word
    \/ set_temp_word_and_flip
    \/ flip_from_data
    \/ mark_learned_from_data
    \/ set_temp_word_and_mark_learned /\ Recorded
    \/ load_flashcards /\ Recorded
    \/ set_new_english /\ Recorded
    \/ set_new_vietnamese /\ Recorded
    \/ set_search_query /\ Recorded
    \/ set_sort_alpha /\ Recorded
    \/ next_card /\ Recorded
    \/ previous_card /\ Recorded
    \/ toggle_answer /\ Recorded
    \/ add_flashcard /\ Recorded
    \/ remove_current_card /\ Recorded
    \/ toggle_learned /\ Recorded
    \/ toggle_learned_by_index /\ Recorded
    \/ toggle_learned_by_word /\ Recorded
    \/ toggle_filter /\ Recorded

SpecGrid == InitLoaded /\ [][NextGrid]_vars

----------------------------------------------------------------------------
(* A session on a disk that stops accepting writes: the handlers that save, *)
(* the form fields, navigation and a reload, over a loaded deck             *)

InitDisk == InitLoaded /\ ~sort_alpha

\* the environment: from now on DATA_FILE cannot be written
disk_fails ==
    /\ Idle
    /\ disk_ok
    /\ disk_ok' = FALSE
    /\ UNCHANGED <<prog_vars, op, pre, arg, save_calls, raised>>

NextDisk ==
    \/ disk_fails
    \/ load_flashcards
    \/ set_new_english
    \/ set_new_vietnamese
    \/ add_flashcard
    \/ remove_current_card
    \/ toggle_learned
    \/ toggle_learned_by_index
    \/ toggle_learned_by_word
    \/ next_card

SpecDisk == InitDisk /\ [][NextDisk]_vars

----------------------------------------------------------------------------
(* Properties *)

\* the cursor invariant of the selection cursor, in state S
CursorValid(S) ==
    LET n == Len(visible_flashcards(S))
    IN  IF n > 0 THEN 0 <= S.current_index /\ S.current_index < n
        ELSE S.current_index = 0

AfterOp(names) == op \in names

\* C1: from a loaded deck with the cursor at 0 and no search query, every state
\* reached by add_flashcard, remove_current_card, toggle_filter, next_card and
\* previous_card has the cursor inside a non-empty projection, and at 0 on an
\* empty one.
C1_CursorInBounds == CursorValid(cur)

\* C1 witness: the cursor stood on the last of several visible cards, that card
\* was removed and the cursor was pulled back by one.
C1_Witness ==
    /\ op = "remove_current_card"
    /\ pre.current_index > 0
    /\ pre.current_index = Len(visible_flashcards(pre)) - 1
    /\ Len(visible_flashcards(cur)) = pre.current_index
    /\ current_index = pre.current_index - 1

\* C2: after set_search_query or set_sort_alpha the cursor is the old cursor
\* clamped to the new projection (max(0, len - 1) if it was >= len), hence a
\* valid position of it.
C2_ClampedAfterSearchOrSort ==
    AfterOp({"set_search_query", "set_sort_alpha"}) =>
        LET n == Len(visible_flashcards(cur))
        IN  /\ current_index = (IF pre.current_index >= n
                                THEN (IF n - 1 > 0 THEN n - 1 ELSE 0)
                                ELSE pre.current_index)
            /\ CursorValid(cur)

\* C3: a toggle of the learned flag made while the learned filter is on, from a
\* state with a valid cursor, leaves the cursor valid for the new projection.
C3_CursorValidAfterToggleLearned ==
    ( /\ AfterOp({"toggle_learned", "toggle_learned_by_index",
                  "toggle_learned_by_word"})
      /\ pre.filter_learned
      /\ CursorValid(pre) ) => CursorValid(cur)

\* C4: current_card never raises; it is None exactly when the projection is
\* empty; otherwise it is the card at the cursor if the cursor is below the
\* projection's length and the first card if it is not, so always a card of
\* the projection.
C4_CurrentCardTotal ==
    LET v == visible_flashcards(cur)
        c == current_card(cur)
    IN  /\ c.kind \in {"None", "card"}
        /\ c.kind = "None" <=> v = <<>>
        /\ v # <<>> =>
              /\ current_index >= 0
              /\ c.card = (IF current_index < Len(v) THEN v[current_index + 1]
                           ELSE v[1])
              /\ \E i \in 1..Len(v) : v[i] = c.card

\* C4 witness: the cursor is past the end of a non-empty projection and the
\* first card is shown.
C4_Witness ==
    LET v == visible_flashcards(cur)
    IN  /\ v # <<>>
        /\ current_index >= Len(v)
        /\ current_card(cur) = [kind |-> "card", card |-> v[1]]

\* every field of the program state but the cursor and the reveal flag
SameButCursor(S, T) ==
    /\ S.flashcards = T.flashcards
    /\ S.new_english = T.new_english
    /\ S.new_vietnamese = T.new_vietnamese
    /\ S.filter_learned = T.filter_learned
    /\ S.search_query = T.search_query
    /\ S.sort_alpha = T.sort_alpha
    /\ S.view_mode = T.view_mode
    /\ S.flipped_cards = T.flipped_cards
    /\ S.flipped_words = T.flipped_words
    /\ S.temp_word = T.temp_word
    /\ S.file = T.file

\* C5: next_card changes nothing on an empty projection; otherwise the cursor
\* becomes (cursor + 1) mod len and show_answer becomes False, so it stays 0 on
\* a one-card projection and wraps from the last position to 0.
C5_NextCard ==
    op = "next_card" =>
        LET n == Len(visible_flashcards(pre))
        IN  IF n = 0 THEN cur = pre
            ELSE /\ current_index = (pre.current_index + 1) % n
                 /\ current_index \in 0..(n - 1)
                 /\ show_answer = FALSE
                 /\ SameButCursor(cur, pre)
                 /\ n = 1 => current_index = 0
                 /\ pre.current_index = n - 1 => current_index = 0

\* C5 witness: next_card ran on the last of several cards with the answer shown.
C5_Witness ==
    /\ op = "next_card"
    /\ Len(visible_flashcards(pre)) >= 2
    /\ pre.current_index = Len(visible_flashcards(pre)) - 1
    /\ pre.show_answer
    /\ current_index = 0
    /\ ~show_answer

\* C6: previous_card changes nothing on an empty projection; otherwise the
\* cursor becomes (cursor - 1) mod len, never negative (len - 1 from 0), and
\* show_answer becomes False; and after a next_card taken from a cursor inside
\* the projection, previous_card would put the cursor back where it was.
C6_PreviousCard ==
    /\ op = "previous_card" =>
          LET n == Len(visible_flashcards(pre))
          IN  IF n = 0 THEN cur = pre
              ELSE /\ current_index \in 0..(n - 1)
                   /\ (current_index - (pre.current_index - 1)) % n = 0
                   /\ pre.current_index = 0 => current_index = n - 1
                   /\ show_answer = FALSE
                   /\ SameButCursor(cur, pre)
    /\ (op = "next_card" /\ pre.current_index \in 0..(Len(visible_flashcards(pre)) - 1)) =>
          previous_index(current_index, Len(visible_flashcards(cur))) = pre.current_index

\* C6 witness: previous_card ran at position 0 of several cards and wrapped.
C6_Witness ==
    /\ op = "previous_card"
    /\ Len(visible_flashcards(pre)) >= 2
    /\ pre.current_index = 0
    /\ current_index = Len(visible_flashcards(pre)) - 1

\* C7 as stated: toggle_filter and toggle_view_mode both leave the cursor at 0
\* and the answer hidden.
C7_BothResetCursor ==
    AfterOp({"toggle_filter", "toggle_view_mode"}) =>
        current_index = 0 /\ show_answer = FALSE

\* C7 amended: toggle_filter leaves the cursor at 0 and the answer hidden;
\* toggle_view_mode leaves the answer hidden and the cursor where it was.
C7_FilterResetsViewKeepsCursor ==
    /\ op = "toggle_filter" => current_index = 0 /\ show_answer = FALSE
    /\ op = "toggle_view_mode" =>
          current_index = pre.current_index /\ show_answer = FALSE

\* C7 witness: the view mode was switched with the cursor off 0 and the answer
\* shown.
C7_Witness ==
    /\ op = "toggle_view_mode"
    /\ pre.current_index > 0
    /\ pre.show_answer
    /\ current_index = pre.current_index
    /\ ~show_answer

\* xs without its j-th entry (1-based)
RemoveAt(xs, j) == SubSeq(xs, 1, j - 1) \o SubSeq(xs, j + 1, Len(xs))

\* C8: remove_current_card with a current card removes exactly one deck entry,
\* the first one equal to the current card, and keeps every other entry in
\* order; with no current card the deck is unchanged.
C8_RemovesExactlyOne ==
    op = "remove_current_card" =>
        LET c == current_card(pre)
            d == pre.flashcards
        IN  IF c.kind = "card"
            THEN /\ Len(flashcards) = Len(d) - 1
                 /\ \E j \in 1..Len(d) :
                        /\ d[j] = c.card
                        /\ \A m \in 1..(j - 1) : d[m] # c.card
                        /\ flashcards = RemoveAt(d, j)
            ELSE flashcards = d

\* s is empty or consists of whitespace only
Whitespace(s) == \A i \in 1..Len(s) : isspace(s[i])

\* t is s without its leading and trailing whitespace
IsTrimOf(t, s) ==
    /\ t # <<>> => ~isspace(t[1]) /\ ~isspace(t[Len(t)])
    /\ \E i \in 0..Len(s) :
          /\ i + Len(t) <= Len(s)
          /\ SubSeq(s, i + 1, i + Len(t)) = t
          /\ Whitespace(SubSeq(s, 1, i))
          /\ Whitespace(SubSeq(s, i + Len(t) + 1, Len(s)))

\* C9: add_flashcard with an english or vietnamese input that is empty or
\* whitespace-only changes nothing - deck, cursor, reveal flag, both inputs,
\* file - and makes no save.
C9_InvalidAddIsNoOp ==
    ( /\ op = "add_flashcard"
      /\ Whitespace(pre.new_english) \/ Whitespace(pre.new_vietnamese) ) =>
        cur = pre /\ save_calls = 0

\* C9 witness: add_flashcard ran with a proper english input and a vietnamese
\* input of one blank, on a non-empty deck.
C9_Witness ==
    /\ op = "add_flashcard"
    /\ ~Whitespace(pre.new_english)
    /\ pre.new_vietnamese = <<32>>
    /\ pre.flashcards # <<>>
    /\ cur = pre

\* C10: add_flashcard with both inputs non-empty after trimming appends exactly
\* one card - the trimmed english, the trimmed vietnamese, learned False - to
\* the unchanged deck, and empties both inputs.
C10_ValidAddAppends ==
    ( /\ op = "add_flashcard"
      /\ ~Whitespace(pre.new_english)
      /\ ~Whitespace(pre.new_vietnamese) ) =>
        /\ Len(flashcards) = Len(pre.flashcards) + 1
        /\ SubSeq(flashcards, 1, Len(pre.flashcards)) = pre.flashcards
        /\ LET added == flashcards[Len(flashcards)]
           IN  /\ IsTrimOf(added.english, pre.new_english)
               /\ IsTrimOf(added.vietnamese, pre.new_vietnamese)
               /\ added.learned = FALSE
        /\ new_english = <<>>
        /\ new_vietnamese = <<>>

\* C10 witness: " a" and "b " were added to a non-empty deck as "a" and "b".
C10_Witness ==
    /\ op = "add_flashcard"
    /\ pre.new_english = <<32, 97>>
    /\ pre.new_vietnamese = <<98, 32>>
    /\ pre.flashcards # <<>>
    /\ flashcards = Append(pre.flashcards,
                           [english |-> <<97>>, vietnamese |-> <<98>>, learned |-> FALSE])

\* a card of the data model: both texts non-empty and trimmed, learned a boolean
WellFormedCard(c) ==
    /\ c.english # <<>>
    /\ ~isspace(c.english[1]) /\ ~isspace(c.english[Len(c.english)])
    /\ c.vietnamese # <<>>
    /\ ~isspace(c.vietnamese[1]) /\ ~isspace(c.vietnamese[Len(c.vietnamese)])
    /\ c.learned \in BOOLEAN

\* C11: from a data file of well-formed cards, whatever is typed and whichever
\* handlers run, every card of the deck and of the file has non-empty, trimmed
\* english and vietnamese texts and a boolean learned flag.
C11_NoCorruptCard ==
    /\ \A i \in 1..Len(flashcards) : WellFormedCard(flashcards[i])
    /\ \A i \in 1..Len(loaded_deck(file)) : WellFormedCard(loaded_deck(file)[i])

\* C11 witness: a card typed with surrounding blanks was added and saved.
C11_Witness ==
    /\ op = "add_flashcard"
    /\ pre.new_english = <<32, 97>>
    /\ pre.new_vietnamese = <<98, 32>>
    /\ Len(flashcards) = Len(pre.flashcards) + 1
    /\ file = FileOf(flashcards)
    /\ WellFormedCard(flashcards[Len(flashcards)])

\* the handlers that toggle the learned flag
LearnedToggles == {"toggle_learned", "toggle_learned_by_index", "toggle_learned_by_word"}

\* the recorded toggle selected an entry of the projection it started from
HasSelection ==
    LET v == visible_flashcards(pre)
    IN  CASE op = "toggle_learned" -> v # <<>>
          [] op = "toggle_learned_by_index" -> 0 <= arg.index /\ arg.index < Len(v)
          [] op = "toggle_learned_by_word" ->
                 \E i \in 1..Len(v) : v[i].english = arg.word
          [] OTHER -> FALSE

\* the position (1-based) of that entry in the projection
Selection ==
    LET v == visible_flashcards(pre)
    IN  CASE op = "toggle_learned" ->
                 IF pre.current_index >= Len(v) THEN 1 ELSE pre.current_index + 1
          [] op = "toggle_learned_by_index" -> arg.index + 1
          [] op = "toggle_learned_by_word" ->
                 CHOOSE i \in 1..Len(v) :
                     /\ v[i].english = arg.word
                     /\ \A k \in 1..(i - 1) : v[k].english # arg.word

\* C12: with the learned filter off, a toggle of the learned flag negates the
\* flag of the card shown at the selected position of the projection and of no
\* other position, also when the deck holds equal cards.
C12_TogglesSelectedEntry ==
    (op \in LearnedToggles /\ ~pre.filter_learned /\ HasSelection) =>
        LET v == visible_flashcards(pre)
            w == visible_flashcards(cur)
        IN  /\ Len(w) = Len(v)
            /\ \A i \in 1..Len(v) :
                  w[i].learned = (IF i = Selection THEN ~v[i].learned ELSE v[i].learned)

\* the cards of d that are not learned, in the order of d
RECURSIVE Unlearned(_)
Unlearned(d) ==
    IF d = <<>> THEN <<>>
    ELSE (IF Head(d).learned THEN <<>> ELSE <<Head(d)>>) \o Unlearned(Tail(d))

\* C13: with an empty query and sort_alpha off the projection is the deck
\* itself when the learned filter is off, and the deck's unlearned cards in
\* deck order when it is on.
C13_FilterProjection ==
    (search_query = <<>> /\ ~sort_alpha) =>
        visible_flashcards(cur) =
            (IF filter_learned THEN Unlearned(flashcards) ELSE flashcards)

\* C13 witness: the filter was switched on over a learned card followed by an
\* unlearned one, and only the second is projected.
C13_Witness ==
    /\ op = "toggle_filter"
    /\ filter_learned
    /\ search_query = <<>> /\ ~sort_alpha
    /\ Len(flashcards) = 2
    /\ flashcards[1].learned /\ ~flashcards[2].learned
    /\ visible_flashcards(cur) = <<flashcards[2]>>

\* q occurs in s as a block of consecutive characters
Occurs(q, s) ==
    \E i \in 0..(Len(s) - Len(q)) : \A k \in 1..Len(q) : s[i + k] = q[k]

\* how many entries of xs equal c
Count(xs, c) == Cardinality({i \in 1..Len(xs) : xs[i] = c})

\* C14: under a query that is non-empty once trimmed, a card that passes the
\* learned filter is projected exactly when the lower-cased trimmed query
\* occurs in its lower-cased english or in its lower-cased vietnamese; an
\* empty or blank query excludes no card.
C14_SearchEitherField ==
    LET f == filtered_flashcards(cur)
        v == visible_flashcards(cur)
        q == lower(strip(search_query))
        Hit(c) == Occurs(q, lower(c.english)) \/ Occurs(q, lower(c.vietnamese))
    IN  /\ \A i \in 1..Len(v) : \E j \in 1..Len(f) : f[j] = v[i]
        /\ \A j \in 1..Len(f) :
              Count(v, f[j]) =
                  (IF Whitespace(search_query) \/ Hit(f[j]) THEN Count(f, f[j]) ELSE 0)

\* C14 witness: the query "c " keeps one of two cards, by its vietnamese text
\* alone.
C14_Witness ==
    LET v == visible_flashcards(cur)
    IN  /\ search_query = <<99, 32>>
        /\ Len(filtered_flashcards(cur)) = 2
        /\ Len(v) = 1
        /\ ~Occurs(<<99>>, lower(v[1].english))
        /\ Occurs(<<99>>, lower(v[1].vietnamese))

\* xs is ys with some entries left out
RECURSIVE IsSubseq(_, _)
IsSubseq(xs, ys) ==
    IF xs = <<>> THEN TRUE
    ELSE IF ys = <<>> THEN FALSE
    ELSE IF Head(xs) = Head(ys) THEN IsSubseq(Tail(xs), Tail(ys))
    ELSE IsSubseq(xs, Tail(ys))

\* C15: the projection with sort_alpha on holds the same cards as the
\* projection with sort_alpha off, in non-decreasing order of the
\* lower-cased english text, cards with the same key in the order they have
\* with sort_alpha off; and switching sort_alpha off leaves the deck as it was
\* and the projection in deck order.
C15_SortLast ==
    LET u == visible_flashcards([cur EXCEPT !.sort_alpha = FALSE])
        v == visible_flashcards([cur EXCEPT !.sort_alpha = TRUE])
        Key(c) == lower(c.english)
    IN  /\ Len(v) = Len(u)
        /\ \A i \in 1..Len(u) : Count(v, u[i]) = Count(u, u[i])
        /\ \A i, j \in 1..Len(v) : i < j => ~str_less(Key(v[j]), Key(v[i]))
        /\ \A i \in 1..Len(u) :
              LET same(c) == Key(c) = Key(u[i])
              IN  SelectSeq(v, same) = SelectSeq(u, same)
        /\ IsSubseq(u, flashcards)
        /\ (op = "set_sort_alpha" /\ ~sort_alpha) =>
              flashcards = pre.flashcards /\ visible_flashcards(cur) = u

\* C15 witness: sort_alpha was switched on over "B" followed by "a" and the
\* projection shows them the other way round.
C15_Witness ==
    LET v == visible_flashcards(cur)
    IN  /\ op = "set_sort_alpha"
        /\ sort_alpha /\ ~pre.sort_alpha
        /\ Len(v) = 2
        /\ visible_flashcards(pre) = <<v[2], v[1]>>
        /\ v[1].english = <<97>> /\ v[2].english = <<66>>

\* the handlers that only change what is shown
ViewOnly ==
    {"next_card", "previous_card", "toggle_answer", "toggle_filter",
     "toggle_view_mode", "toggle_flip", "toggle_flip_by_word",
     "set_search_query", "set_sort_alpha"}

\* C16: next_card, previous_card, toggle_answer, toggle_filter,
\* toggle_view_mode, toggle_flip, toggle_flip_by_word, set_search_query and
\* set_sort_alpha leave the deck (contents and order) and the data file as
\* they were and do not save; the computed vars are functions of the state.
C16_ViewOnlyKeepsDeck ==
    op \in ViewOnly =>
        /\ flashcards = pre.flashcards
        /\ file = pre.file
        /\ save_calls = 0
        /\ filtered_flashcards(cur) = filtered_flashcards([cur EXCEPT !.flashcards = pre.flashcards])
        /\ visible_flashcards(cur) = visible_flashcards([cur EXCEPT !.flashcards = pre.flashcards])

\* C16 witness: sort_alpha was switched on over a deck holding "B" before "a";
\* the projection is reordered, the deck is not.
C16_Witness ==
    /\ op = "set_sort_alpha"
    /\ sort_alpha /\ ~pre.sort_alpha
    /\ Len(flashcards) = 2
    /\ flashcards[1].english = <<66>> /\ flashcards[2].english = <<97>>
    /\ visible_flashcards(cur) = <<flashcards[2], flashcards[1]>>
    /\ file = FileOf(flashcards)

\* C17: right after toggle_view_mode no card is recorded as flipped, neither
\* in flipped_cards nor in flipped_words.
C17_ViewModeClearsFlips ==
    op = "toggle_view_mode" => flipped_cards = <<>> /\ flipped_words = <<>>

\* the identifiers held by a flipped list
Elems(xs) == {xs[i] : i \in 1..Len(xs)}

NoDup(xs) == \A i, j \in 1..Len(xs) : xs[i] = xs[j] => i = j

\* T holds x exactly when S does not, and agrees with S on everything else
Flipped(S, T, x) == T = (IF x \in S THEN S \ {x} ELSE S \cup {x})

\* C18: toggle_flip(i) puts i into flipped_cards if it was absent and takes
\* it out if it was present, toggle_flip_by_word(w) does the same with w and
\* flipped_words, the other identifiers stay, in the order they had; the same
\* toggle applied twice gives back the same identifiers; no identifier is
\* ever held twice; toggle_flip without a card_index changes nothing.
C18_FlipToggles ==
    /\ NoDup(flipped_cards) /\ NoDup(flipped_words)
    /\ (op = "toggle_flip" /\ arg.kind = "index") =>
          LET other(y) == y # arg.index
          IN  /\ Flipped(Elems(pre.flipped_cards), Elems(flipped_cards), arg.index)
              /\ SelectSeq(flipped_cards, other) = SelectSeq(pre.flipped_cards, other)
              /\ [cur EXCEPT !.flipped_cards = pre.flipped_cards] = pre
    /\ (op = "toggle_flip" /\ arg = NoArg) => cur = pre
    /\ op = "toggle_flip_by_word" =>
          LET other(y) == y # arg.word
          IN  /\ Flipped(Elems(pre.flipped_words), Elems(flipped_words), arg.word)
              /\ SelectSeq(flipped_words, other) = SelectSeq(pre.flipped_words, other)
              /\ [cur EXCEPT !.flipped_words = pre.flipped_words] = pre
    /\ \A i \in FlipPositions :
          Elems(flip_toggle(flip_toggle(flipped_cards, i), i)) = Elems(flipped_cards)
    /\ \A w \in FlipWords :
          Elems(flip_toggle(flip_toggle(flipped_words, w), w)) = Elems(flipped_words)

\* C18 witness: position 0 was flipped back while position 1 stayed flipped.
C18_Witness ==
    /\ op = "toggle_flip"
    /\ arg = IndexArg(0)
    /\ pre.flipped_cards = <<0, 1>>
    /\ flipped_cards = <<1>>

\* C19: view_mode starts as "single" and is always "single" or "grid";
\* toggle_view_mode switches it to the other value, so that a second
\* toggle_view_mode gives the first value back; no other handler changes it.
C19_ViewModeMachine ==
    /\ view_mode = "single"
    /\ [](/\ view_mode \in {"single", "grid"}
          /\ op = "toggle_view_mode" =>
                /\ view_mode # pre.view_mode
                /\ toggled_mode(view_mode) = pre.view_mode
          /\ op \notin {"-", "toggle_view_mode"} => view_mode = pre.view_mode)
    /\ [][view_mode' = view_mode \/ view_mode' = toggled_mode(view_mode)]_vars

\* C19 witness: toggle_view_mode ran in the grid and brought the single view
\* back.
C19_Witness ==
    /\ op = "toggle_view_mode"
    /\ pre.view_mode = "grid"
    /\ view_mode = "single"

\* C20: the counter reads "No cards" when nothing is visible; otherwise it
\* reads "Card k of n" with n the number of visible cards, k = current_index
\* + 1 and 1 <= k <= n, and current_card is the k-th visible card.
C20_CounterConsistent ==
    LET v == visible_flashcards(cur)
        t == card_counter_text(cur)
    IN  IF v = <<>>
        THEN t.text = "No cards"
        ELSE /\ t.text = "Card k of n"
             /\ t.n = Len(v)
             /\ t.k = current_index + 1
             /\ 1 <= t.k /\ t.k <= t.n
             /\ current_card(cur) = [kind |-> "card", card |-> v[t.k]]

\* the handlers that change the deck and save it
Mutators ==
    {"add_flashcard", "remove_current_card", "toggle_learned",
     "toggle_learned_by_index", "toggle_learned_by_word",
     "set_temp_word_and_mark_learned"}

\* C21: while DATA_FILE can be written, after every add_flashcard,
\* remove_current_card or toggle_learned* that changed the deck the file
\* holds the deck as it is in memory: the handler saved once, and loading the
\* file gives the same cards in the same order with the same learned flags.
C21_WriteAfterMutation ==
    (op \in Mutators /\ disk_ok /\ flashcards # pre.flashcards) =>
        /\ save_calls = 1
        /\ file.state = "ok"
        /\ loaded_deck(file) = flashcards
        /\ json_load(json_dump(flashcards)) = flashcards

\* C21 witness: the second card of the deck was marked learned and the file,
\* rewritten, loads as the deck with that flag set.
C21_Witness ==
    /\ op = "toggle_learned"
    /\ Len(flashcards) = 2
    /\ flashcards[2].learned /\ ~pre.flashcards[2].learned
    /\ file # pre.file
    /\ loaded_deck(file) = flashcards

\* C22: load_flashcards ends without an exception whatever DATA_FILE is; the
\* deck becomes empty when the file is missing, cannot be read or is not JSON,
\* and becomes the file's list of cards, in order, when it can be read.
C22_LoadNeverRaises ==
    op = "load_flashcards" =>
        /\ ~raised
        /\ file = pre.file
        /\ [cur EXCEPT !.flashcards = pre.flashcards] = pre
        /\ IF pre.file.state = "ok"
           THEN /\ Len(flashcards) = Len(pre.file.cards)
                /\ \A i \in 1..Len(flashcards) :
                      /\ flashcards[i].english = pre.file.cards[i].english
                      /\ flashcards[i].vietnamese = pre.file.cards[i].vietnamese
                      /\ flashcards[i].learned = (pre.file.cards[i].learned = "true")
           ELSE flashcards = <<>>

\* C22 witness: a save had left DATA_FILE half written; loading it empties a
\* deck that held cards.
C22_Witness ==
    /\ op = "load_flashcards"
    /\ pre.file = CorruptFile
    /\ pre.flashcards # <<>>
    /\ flashcards = <<>>
    /\ ~raised

\* the recorded handler got as far as its call of save_flashcards
ReachedSave ==
    LET v == visible_flashcards(pre)
    IN  \/ /\ op = "add_flashcard"
           /\ ~Whitespace(pre.new_english) /\ ~Whitespace(pre.new_vietnamese)
        \/ op \in {"remove_current_card", "toggle_learned"} /\ v # <<>>
        \/ op = "toggle_learned_by_index" /\ 0 <= arg.index /\ arg.index < Len(v)
        \/ /\ op \in {"toggle_learned_by_word", "set_temp_word_and_mark_learned"}
           /\ \E i \in 1..Len(v) : v[i].english = arg.word

\* the cursor i as lines 127-128 and 138-139 leave it over n visible cards
Clamped(i, n) == IF i < n THEN i ELSE IF n > 1 THEN n - 1 ELSE 0

\* C23: when DATA_FILE cannot be written and add_flashcard,
\* remove_current_card or toggle_learned* reaches its save, the handler ends
\* without an exception after one call of save_flashcards, the deck in memory
\* keeps the change (one card more, fewer cards, or a changed flag), the file
\* does not hold it, and the cursor is adjusted as after a save that worked.
C23_FailedSaveKeepsMutation ==
    (~disk_ok /\ ReachedSave) =>
        LET n == Len(visible_flashcards(cur))
        IN  /\ ~raised
            /\ save_calls = 1
            /\ file \in {pre.file, CorruptFile}
            /\ op = "add_flashcard" =>
                  /\ Len(flashcards) = Len(pre.flashcards) + 1
                  /\ SubSeq(flashcards, 1, Len(pre.flashcards)) = pre.flashcards
                  /\ current_index = Clamped(pre.current_index, n)
            /\ op = "remove_current_card" =>
                  /\ Len(flashcards) < Len(pre.flashcards)
                  /\ IsSubseq(flashcards, pre.flashcards)
                  /\ current_index = (IF n = 0 THEN 0 ELSE Clamped(pre.current_index, n))
            /\ op \notin {"add_flashcard", "remove_current_card"} =>
                  /\ Len(flashcards) = Len(pre.flashcards)
                  /\ flashcards # pre.flashcards
                  /\ current_index = pre.current_index

\* C23 witness: an earlier save had already failed, so the deck in memory was
\* ahead of the file; the last of its two cards was removed, the save failed
\* again and the cursor moved back to the card that is left.
C23_Witness ==
    /\ op = "remove_current_card"
    /\ ~disk_ok
    /\ loaded_deck(pre.file) # pre.flashcards
    /\ Len(pre.flashcards) = 2 /\ pre.current_index = 1
    /\ flashcards = <<pre.flashcards[1]>>
    /\ current_index = 0
    /\ loaded_deck(file) # flashcards

\* C24: toggle_learned with a current card negates the learned flag of one
\* deck entry, the first one equal to the current card, and saves once; the
\* deck keeps its length and order, every entry its english and vietnamese
\* texts, every other entry its learned flag, and nothing but the deck and the
\* file changes.  With no current card the deck and the file stay as they
\* were and nothing is saved.
C24_ToggleLearnedFrame ==
    op = "toggle_learned" =>
        LET c == current_card(pre)
            d == pre.flashcards
        IN  /\ [cur EXCEPT !.flashcards = d, !.file = pre.file] = pre
            /\ IF c.kind = "card"
               THEN /\ save_calls = 1
                    /\ Len(flashcards) = Len(d)
                    /\ \E j \in 1..Len(d) :
                          /\ d[j] = c.card
                          /\ \A m \in 1..(j - 1) : d[m] # c.card
                          /\ \A m \in 1..Len(d) :
                                /\ flashcards[m].english = d[m].english
                                /\ flashcards[m].vietnamese = d[m].vietnamese
                                /\ flashcards[m].learned =
                                      (IF m = j THEN ~d[m].learned ELSE d[m].learned)
               ELSE /\ flashcards = d
                    /\ file = pre.file
                    /\ save_calls = 0

\* C24 witness: the deck held the same card twice and the second was
\* selected; the first one got the flag, the second kept its own.
C24_Witness ==
    /\ op = "toggle_learned"
    /\ Len(pre.flashcards) = 2
    /\ pre.flashcards[1] = pre.flashcards[2]
    /\ pre.current_index = 1
    /\ flashcards[1].learned # pre.flashcards[1].learned
    /\ flashcards[2] = pre.flashcards[2]

\* C25: when the cursor i is within the n visible cards and no two deck
\* entries are equal, remove_current_card leaves the visible cards as they
\* were without the i-th; if a card followed the removed one the cursor stays
\* at i and that card is the current card; if the removed card was the last of
\* several the cursor is n - 2, on the new last card; if it was the only one
\* the cursor is 0 and there is no current card.
C25_SelectionAfterRemoval ==
    LET v == visible_flashcards(pre)
        w == visible_flashcards(cur)
        i == pre.current_index
        n == Len(v)
    IN  (op = "remove_current_card" /\ 0 <= i /\ i < n /\ NoDup(pre.flashcards)) =>
            /\ w = RemoveAt(v, i + 1)
            /\ IF i < n - 1
               THEN /\ current_index = i
                    /\ current_card(cur) = [kind |-> "card", card |-> v[i + 2]]
               ELSE IF n > 1
               THEN /\ current_index = n - 2
                    /\ current_card(cur) = [kind |-> "card", card |-> w[Len(w)]]
               ELSE /\ current_index = 0
                    /\ current_card(cur) = [kind |-> "None"]

\* C25 witness: the first of two different visible cards was removed and the
\* cursor, still 0, is on the card that came second.
C25_Witness ==
    /\ op = "remove_current_card"
    /\ NoDup(pre.flashcards)
    /\ pre.current_index = 0
    /\ Len(visible_flashcards(pre)) = 2
    /\ current_index = 0
    /\ visible_flashcards(cur) = <<visible_flashcards(pre)[2]>>
    /\ current_card(cur) = [kind |-> "card", card |-> visible_flashcards(pre)[2]]

====
